---- MODULE Spec2Model ----
(***************************************************************************)
(* Model of deck_builder.py: the catalog normaliser, the sort key, the     *)
(* filter, the deck text codec (export / save / QR payload, and the three  *)
(* importers) and the deck-mode session state machine.                     *)
(*                                                                         *)
(* Text is a sequence of one-character strings, so that strip / split /    *)
(* join / int() / str() are computed character by character.               *)
(* The module is ASCII only; the non-ASCII characters of the source are    *)
(* written as follows:                                                     *)
(*     "R" = U+8D64 (red)     "G" = U+7DD1 (green)   "B" = U+9752 (blue)    *)
(*     "P" = U+7D2B (purple)  "K" = U+9ED2 (black)   "Y" = U+9EC4 (yellow)  *)
(*     "|" = U+FF0F (fullwidth slash)                                       *)
(*     "[" = U+3010 , "]" = U+3011 (lenticular brackets)                    *)
(*     SERIES_OTHER = the series sentinel U+305D U+306E U+4ED6              *)
(* and the data-frame columns carry ASCII names (card_id, card_name,       *)
(* color, type, cost, cost_num, counter, attribute, attribute_list,        *)
(* feature, feature_list, block, info, series_id, text, trigger,           *)
(* sort_key).                                                              *)
(***************************************************************************)
EXTENDS Integers, Sequences, FiniteSets, TLC

(***************************************************************************)
(* Python str primitives                                                   *)
(***************************************************************************)
Digits == <<"0", "1", "2", "3", "4", "5", "6", "7", "8", "9">>
Upper == <<"A", "B", "C", "D", "E", "F", "G", "H", "I", "J", "K", "L", "M",
           "N", "O", "P", "Q", "R", "S", "T", "U", "V", "W", "X", "Y", "Z">>
Lower == <<"a", "b", "c", "d", "e", "f", "g", "h", "i", "j", "k", "l", "m",
           "n", "o", "p", "q", "r", "s", "t", "u", "v", "w", "x", "y", "z">>

IndexOf(seq, c) == CHOOSE i \in 1..Len(seq) : seq[i] = c
InSeq(seq, c) == \E i \in 1..Len(seq) : seq[i] = c

\* a list comprehension: the list is built once, when the comprehension runs
RECURSIVE list_from(_, _, _)
list_from(f, lo, hi) ==
    IF lo > hi THEN <<>>
    ELSE IF lo = hi THEN <<f[lo]>>
    ELSE LET mid == (lo + hi) \div 2
         IN  list_from(f, lo, mid) \o list_from(f, mid + 1, hi)

as_list(f) == list_from(f, 1, Len(f))

Min(S) == CHOOSE a \in S : \A b \in S : a <= b
Max(S) == CHOOSE a \in S : \A b \in S : b <= a

\* ord(c): the code point, which is what Python compares strings by.
code_point(c) ==
    IF InSeq(Digits, c) THEN 47 + IndexOf(Digits, c)
    ELSE IF InSeq(Upper, c) THEN 64 + IndexOf(Upper, c)
    ELSE IF InSeq(Lower, c) THEN 96 + IndexOf(Lower, c)
    ELSE CASE c = "\n" -> 10
           [] c = " " -> 32
           [] c = "#" -> 35
           [] c = "+" -> 43
           [] c = "-" -> 45
           [] c = "/" -> 47
           [] c = "[" -> 12304
           [] c = "]" -> 12305
           [] c = "|" -> 65295

Chars ==
    {Digits[i] : i \in 1..Len(Digits)} \cup {Upper[i] : i \in 1..Len(Upper)}
    \cup {Lower[i] : i \in 1..Len(Lower)}
    \cup {"\n", " ", "#", "+", "-", "/", "[", "]", "|"}

CodePoints == [c \in Chars |-> code_point(c)]

ord(c) == CodePoints[c]

\* str.lower() on one character (ASCII letters).
lower_char(c) == IF InSeq(Upper, c) THEN Lower[IndexOf(Upper, c)] ELSE c
lower(s) == as_list([i \in 1..Len(s) |-> lower_char(s[i])])

is_space(c) == c \in {" ", "\n"}

\* s < t for Python strings: lexicographic by code point, a proper prefix first.
str_lt(s, t) ==
    LET n == IF Len(s) < Len(t) THEN Len(s) ELSE Len(t)
        differ == {i \in 1..n : s[i] # t[i]}
    IN  IF differ = {} THEN Len(s) < Len(t)
        ELSE ord(s[Min(differ)]) < ord(t[Min(differ)])

\* the positions of the characters that are not whitespace
non_space(s) == {i \in 1..Len(s) : ~is_space(s[i])}

lstrip(s) == IF non_space(s) = {} THEN <<>> ELSE SubSeq(s, Min(non_space(s)), Len(s))

rstrip(s) == IF non_space(s) = {} THEN <<>> ELSE SubSeq(s, 1, Max(non_space(s)))

\* str.strip()
strip(s) == rstrip(lstrip(s))

\* s.startswith(p)
startswith(s, p) == Len(s) >= Len(p) /\ SubSeq(s, 1, Len(p)) = p

\* "sub in s"
contains(s, sub) ==
    \E i \in 1..(Len(s) - Len(sub) + 1) : SubSeq(s, i, i + Len(sub) - 1) = sub

\* s.split(sep) for a one-character separator: every occurrence splits, empty
\* pieces are kept.
split(s, sep) ==
    LET cuts == {i \in 1..Len(s) : s[i] = sep}
        n == Cardinality(cuts)
        cut(k) == IF k = 0 THEN 0
                  ELSE IF k = n + 1 THEN Len(s) + 1
                  ELSE CHOOSE i \in cuts : Cardinality({j \in cuts : j <= i}) = k
    IN  as_list([k \in 1..(n + 1) |-> SubSeq(s, cut(k - 1) + 1, cut(k) - 1)])

\* sep.join(parts)
RECURSIVE join(_, _)
join(sep, parts) ==
    IF parts = <<>> THEN <<>>
    ELSE IF Len(parts) = 1 THEN parts[1]
    ELSE parts[1] \o sep \o join(sep, Tail(parts))

\* s.split() with no argument: split on runs of whitespace, no empty pieces.
split_ws(s) ==
    LET starts == {i \in non_space(s) : i = 1 \/ is_space(s[i - 1])}
        ends == {i \in non_space(s) : i = Len(s) \/ is_space(s[i + 1])}
        kth(S, k) == CHOOSE i \in S : Cardinality({j \in S : j <= i}) = k
    IN  as_list([k \in 1..Cardinality(starts) |->
                    SubSeq(s, kth(starts, k), kth(ends, k))])

\* f"{n}" for an int.
RECURSIVE nat_str(_)
nat_str(n) ==
    IF n < 10 THEN <<Digits[n + 1]>>
    ELSE Append(nat_str(n \div 10), Digits[(n % 10) + 1])

int_str(n) == IF n < 0 THEN <<"-">> \o nat_str(0 - n) ELSE nat_str(n)

all_digits(s) == s # <<>> /\ \A i \in 1..Len(s) : InSeq(Digits, s[i])

RECURSIVE digits_val(_)
digits_val(s) ==
    IF s = <<>> THEN 0
    ELSE 10 * digits_val(SubSeq(s, 1, Len(s) - 1)) + (IndexOf(Digits, s[Len(s)]) - 1)

\* int(s): surrounding whitespace is ignored, one optional sign, then decimal
\* digits; anything else raises ValueError (ok = FALSE).
int_body(s) ==
    IF s # <<>> /\ Head(s) \in {"+", "-"} THEN Tail(s) ELSE s

int_parse(s) ==
    LET t == strip(s)
        b == int_body(t)
    IN  IF all_digits(b)
        THEN [ok |-> TRUE,
              val |-> IF Head(t) = "-" THEN 0 - digits_val(b) ELSE digits_val(b)]
        ELSE [ok |-> FALSE, val |-> 0]

(***************************************************************************)
(* The catalog (cardlist_filtered.csv after fillna("-")): a fixed test     *)
(* catalog with two leaders (one bicolor, written with the fullwidth       *)
(* slash), the cards of the spec's concrete scenario, an unlimited card,   *)
(* a card whose ID contains the separator letter, a stage and a card with  *)
(* no color.                                                               *)
(***************************************************************************)
LEAD_001 == <<"L", "E", "A", "D", "-", "0", "0", "1">>
LEAD_002 == <<"L", "E", "A", "D", "-", "0", "0", "2">>
CARD_001 == <<"C", "A", "R", "D", "-", "0", "0", "1">>
CARD_002 == <<"C", "A", "R", "D", "-", "0", "0", "2">>
OP01_075 == <<"O", "P", "0", "1", "-", "0", "7", "5">>
OP08_072 == <<"O", "P", "0", "8", "-", "0", "7", "2">>
EVx_01 == <<"E", "V", "x", "-", "0", "1">>
STG_001 == <<"S", "T", "G", "-", "0", "0", "1">>
DON_001 == <<"D", "O", "N", "-", "0", "0", "1">>

DASH == <<"-">>

RawRow(id, nm, col, ty, co, cn, at, fe, bl, inf, tx, tr) ==
    [card_id |-> id, card_name |-> nm, color |-> col, type |-> ty, cost |-> co,
     counter |-> cn, attribute |-> at, feature |-> fe, block |-> bl, info |-> inf,
     text |-> tx, trigger |-> tr]

RawCatalog ==
    << RawRow(LEAD_001, <<"A", "c", "e">>, <<"R">>, "LEADER", <<"5">>, "-",
              <<"S">>, <<"W", "B">>, "1", <<"[", "O", "1", "]">>, <<"D", "o", "n">>, DASH),
       RawRow(LEAD_002, <<"Z", "o">>, <<"G", "|", "B">>, "LEADER", <<"4">>, "-",
              <<"S">>, <<"S", "N">>, "2", <<"[", "O", "2", "]">>, DASH, DASH),
       RawRow(CARD_001, <<"N", "a">>, <<"R">>, "CHARACTER", <<"3">>, "1000",
              <<"S", "/", "T">>, <<"W", "B", "/", "S", "N">>, "1",
              <<"[", "O", "1", "]">>, <<"R", "u", "s", "h">>, DASH),
       RawRow(CARD_002, <<"U", "s">>, <<"G">>, "CHARACTER", <<"2">>, "2000",
              <<"T">>, <<"S", "N">>, "2", <<"P", "r">>, DASH, <<"K", "O">>),
       RawRow(OP01_075, <<"P", "a">>, <<"B">>, "CHARACTER", <<"2">>, "-",
              <<"S", "|", "T">>, <<"W", "B">>, "1", <<"[", " ", "O", "1", "]", "[", "X", "]">>,
              <<"n", "a">>, DASH),
       RawRow(EVx_01, <<"G", "u", "m">>, <<"R">>, "EVENT", <<"3">>, "-",
              DASH, <<"S", "N">>, "2", <<"[", "O", "2", "]">>, <<"K", "O">>, <<"D", "o", "n">>),
       RawRow(STG_001, <<"S", "h", "i", "p">>, <<"G">>, "STAGE", <<"1">>, "-",
              DASH, <<"W", "B">>, "2", DASH, DASH, DASH),
       RawRow(DON_001, <<"D", "o", "n">>, DASH, "CHARACTER", DASH, "-",
              DASH, DASH, "-", DASH, DASH, DASH) >>

\* 無制限カードのリスト
UNLIMITED_CARDS == <<OP01_075, OP08_072>>

(***************************************************************************)
(* load_data: the derived columns                                          *)
(***************************************************************************)
replace_char(s, a, b) == as_list([i \in 1..Len(s) |-> IF s[i] = a THEN b ELSE s[i]])

strip_all(parts) == as_list([i \in 1..Len(parts) |-> strip(parts[i])])

\* [f.strip() for f in str(x).replace(fullwidth, "/").split("/")
\*            if f.strip() and f.strip() != "-"]
slash_list(x) ==
    SelectSeq(strip_all(split(replace_char(x, "|", "/"), "/")),
              LAMBDA f : f # <<>> /\ f # DASH)

\* df["cost"].replace("-", 0).astype(int)
cost_value(c) == IF c = DASH THEN 0 ELSE int_parse(c).val

SERIES_OTHER == <<"O", "T", "H", "E", "R">>

\* re.search of an opening bracket, the shortest text of at least one
\* character, a closing bracket.
extract_series_id(info) ==
    LET opens == {i \in 1..Len(info) :
                    info[i] = "[" /\ \E j \in (i + 2)..Len(info) : info[j] = "]"}
    IN  IF opens # {}
        THEN LET i == Min(opens)
                 j == Min({a \in (i + 2)..Len(info) : info[a] = "]"})
             IN  strip(SubSeq(info, i + 1, j - 1))
        ELSE IF strip(info) \notin {DASH, <<>>} THEN SERIES_OTHER ELSE DASH

(***************************************************************************)
(* color_sort_key                                                          *)
(***************************************************************************)
color_order == <<"R", "G", "B", "P", "K", "Y">>

color_priority(c) == IndexOf(color_order, c) - 1

TypeNames == {"LEADER", "CHARACTER", "EVENT", "STAGE"}

\* type_priority.get(t, 9)
type_priority_get(t) ==
    CASE t = "LEADER" -> 0
      [] t = "CHARACTER" -> 1
      [] t = "EVENT" -> 2
      [] t = "STAGE" -> 3
      [] OTHER -> 9

MaximalKey == <<999, 999, 999, 999>>

\* color_sort_key taking as first color the one that comes first in the text
color_sort_key_as_text_order(color, type) ==
    LET at == {k \in 1..Len(color) : InSeq(color_order, color[k])}
        is_multi == contains(color, <<"/">>) \/ contains(color, <<"|">>)
        first_color == color[Min(at)]
        sub_colors == SelectSeq(color_order,
                          LAMBDA c : contains(color, <<c>>) /\ c # first_color)
    IN  IF at = {} THEN MaximalKey
        ELSE <<color_priority(first_color), type_priority_get(type),
               IF is_multi /\ sub_colors # <<>>
               THEN (IndexOf(color_order, sub_colors[1]) - 1) + 1 ELSE 0,
               IF is_multi THEN 1 ELSE 0>>

color_sort_key(color, type) ==
    LET text == color
        t == type
    IN  IF strip(text) = DASH \/ strip(text) = <<>>
        THEN MaximalKey
        ELSE LET found_colors == SelectSeq(color_order, LAMBDA c : contains(text, <<c>>))
             IN  IF found_colors = <<>>
                 THEN MaximalKey
                 ELSE LET first_color == found_colors[1]
                          base_priority == color_priority(first_color)
                          is_multi == contains(text, <<"/">>) \/ contains(text, <<"|">>)
                          sub_colors == SelectSeq(color_order,
                                            LAMBDA c : contains(text, <<c>>) /\ c # first_color)
                          sub_priority == IF is_multi /\ sub_colors # <<>>
                                          THEN (IndexOf(color_order, sub_colors[1]) - 1) + 1
                                          ELSE 0
                          multi_flag == IF is_multi THEN 1 ELSE 0
                          type_rank == type_priority_get(t)
                     IN  <<base_priority, type_rank, sub_priority, multi_flag>>

\* One row of df after load_data and df["sort_key"] = df.apply(color_sort_key).
load_row(r) ==
    [card_id |-> r.card_id, card_name |-> r.card_name, color |-> r.color,
     type |-> r.type, cost |-> r.cost, counter |-> r.counter,
     attribute |-> r.attribute, feature |-> r.feature, block |-> r.block,
     info |-> r.info, text |-> r.text, trigger |-> r.trigger,
     feature_list |-> slash_list(r.feature),
     attribute_list |-> slash_list(r.attribute),
     cost_num |-> cost_value(r.cost),
     series_id |-> extract_series_id(r.info),
     sort_key |-> color_sort_key(r.color, r.type)]

df == as_list([i \in 1..Len(RawCatalog) |-> load_row(RawCatalog[i])])

\* df[df["card_id"] == card_id]: the matching rows, in catalog order.
rows_with_id(card_id) == SelectSeq(df, LAMBDA r : r.card_id = card_id)


(***************************************************************************)
(* The deck: st.session_state["deck"], a dict card_id -> count.  A Python  *)
(* dict keeps insertion order, so it is a sequence of entries with unique  *)
(* card_id.                                                                *)
(***************************************************************************)
deck_keys(deck_dict) == {deck_dict[i].card_id : i \in 1..Len(deck_dict)}

has_key(deck_dict, card_id) == \E i \in 1..Len(deck_dict) : deck_dict[i].card_id = card_id

\* deck.get(card_id, 0)
deck_get(deck_dict, card_id) ==
    IF has_key(deck_dict, card_id)
    THEN deck_dict[CHOOSE i \in 1..Len(deck_dict) : deck_dict[i].card_id = card_id].count
    ELSE 0

\* deck[card_id] = count: an existing key keeps its place, a new one goes last.
deck_set(deck_dict, card_id, count) ==
    IF has_key(deck_dict, card_id)
    THEN as_list([i \in 1..Len(deck_dict) |->
            IF deck_dict[i].card_id = card_id
            THEN [card_id |-> card_id, count |-> count] ELSE deck_dict[i]])
    ELSE Append(deck_dict, [card_id |-> card_id, count |-> count])

\* del deck[card_id]
deck_del(deck_dict, card_id) == SelectSeq(deck_dict, LAMBDA e : e.card_id # card_id)

\* sum(deck.values())
RECURSIVE total_cards(_)
total_cards(deck_dict) ==
    IF deck_dict = <<>> THEN 0 ELSE Head(deck_dict).count + total_cards(Tail(deck_dict))

\* the deck as a mapping, without its insertion order
deck_items(deck_dict) == {deck_dict[i] : i \in 1..Len(deck_dict)}

(***************************************************************************)
(* Deck-display order: new_sort_key and list.sort                          *)
(***************************************************************************)
\* new_sort_key in the order of the catalog's sort key: color before type
new_sort_key_as_color_first(card_id) ==
    LET card_row == rows_with_id(card_id)[1]
    IN  <<card_row.sort_key[1], card_row.cost_num, card_row.sort_key[2], card_id>>

\* card_row = df[df["card_id"] == card_id].iloc[0]
\* base_priority, type_rank, _, _ = card_row["sort_key"]
\* "new_sort_key": (type_rank, card_row["cost_num"], base_priority, card_id)
new_sort_key_of(card_id) ==
    LET card_row == rows_with_id(card_id)[1]
        base_priority == card_row.sort_key[1]
        type_rank == card_row.sort_key[2]
    IN  <<type_rank, card_row.cost_num, base_priority, card_id>>

\* the keys of the catalog's cards, computed once
NewSortKeys == as_list([i \in 1..Len(df) |-> new_sort_key_of(df[i].card_id)])

new_sort_key(card_id) ==
    NewSortKeys[CHOOSE i \in 1..Len(df) : df[i].card_id = card_id]

\* a < b for two new_sort_key tuples (Python tuple comparison)
key_lt(a, b) ==
    IF a[1] # b[1] THEN a[1] < b[1]
    ELSE IF a[2] # b[2] THEN a[2] < b[2]
    ELSE IF a[3] # b[3] THEN a[3] < b[3]
    ELSE str_lt(a[4], b[4])

\* list.sort(key = new_sort_key) is stable: an element goes after every
\* element that is not greater than it.
RECURSIVE insert_sorted(_, _)
insert_sorted(sorted, e) ==
    IF sorted = <<>> THEN <<e>>
    ELSE IF key_lt(new_sort_key(e.card_id), new_sort_key(Head(sorted).card_id))
         THEN <<e>> \o sorted
         ELSE <<Head(sorted)>> \o insert_sorted(Tail(sorted), e)

RECURSIVE sort_from(_, _)
sort_from(rest, sorted) ==
    IF rest = <<>> THEN sorted
    ELSE sort_from(Tail(rest), insert_sorted(sorted, Head(rest)))

\* deck_cards_sorted, after deck_cards_sorted.sort(key=lambda x: x["new_sort_key"])
deck_cards_sorted(deck_dict) == sort_from(deck_dict, <<>>)

(***************************************************************************)
(* Serialisation: the export button, the save button and the QR payload    *)
(* of create_deck_image each build the text with their own copy of the     *)
(* same code.                                                              *)
(***************************************************************************)
NL == <<"\n">>

\* f"{count}x{card_id}" for each sorted entry
entry_lines(cards) ==
    as_list([i \in 1..Len(cards) |->
                int_str(cards[i].count) \o <<"x">> \o cards[i].card_id])

name_line(name) == <<"#", " ">> \o name

leader_line(leader_card) == <<"1", "x">> \o leader_card.card_id

export_text_as_trailing_newline(leader_card, deck_dict, name) ==
    join(NL, (IF name # <<>> THEN <<name_line(name)>> ELSE <<>>)
             \o <<leader_line(leader_card)>>
             \o entry_lines(deck_cards_sorted(deck_dict))) \o NL

\* export_lines, then export_text = "\n".join(export_lines)
export_text(leader_card, deck_dict, name) ==
    LET export_lines ==
            (IF name # <<>> THEN <<name_line(name)>> ELSE <<>>)
            \o <<leader_line(leader_card)>>
            \o entry_lines(deck_cards_sorted(deck_dict))
    IN  join(NL, export_lines)

\* save_lines, then save_text = "\n".join(save_lines)
save_text(leader_card, deck_dict, current_deck_name) ==
    LET save_lines ==
            (IF current_deck_name # <<>> THEN <<name_line(current_deck_name)>> ELSE <<>>)
            \o <<leader_line(leader_card)>>
            \o entry_lines(deck_cards_sorted(deck_dict))
    IN  join(NL, save_lines)

\* deck_lines, then deck_text = "\n".join(deck_lines), the data of the QR code
deck_text(leader_card, deck_dict, name) ==
    LET deck_lines ==
            (IF name # <<>> THEN <<name_line(name)>> ELSE <<>>)
            \o <<leader_line(leader_card)>>
            \o entry_lines(deck_cards_sorted(deck_dict))
    IN  join(NL, deck_lines)

(***************************************************************************)
(* Parsing: the three importers (text area, QR image, saved file) share    *)
(* the line handling; they differ in how a failure is reported.            *)
(***************************************************************************)
X == <<"x">>

\* [line.strip() for line in text.strip().split("\n") if line.strip()]
nonempty_lines(text) ==
    SelectSeq(strip_all(split(strip(text), "\n")), LAMBDA line : line # <<>>)

\* if lines and lines[0].startswith("#"): the name line
has_name_line(lines) == lines # <<>> /\ startswith(lines[1], <<"#">>)

\* imported_deck_name = lines[0][1:].strip()
imported_deck_name(lines) ==
    IF has_name_line(lines) THEN strip(Tail(lines[1])) ELSE <<>>

start_idx(lines) == IF has_name_line(lines) THEN 1 ELSE 0

\* count, card_id = line.split("x"): unpacking needs exactly two pieces
split_x(line) == split(line, "x")

\* for line in lines[start_idx + 1:]: the entry loop.  raised names the
\* exception that ended the loop ("none" when it ran to its end); deck is
\* session_state["deck"] as the loop left it.
RECURSIVE import_entries(_, _)
import_entries(lines, deck_dict) ==
    IF lines = <<>> THEN [deck |-> deck_dict, raised |-> "none"]
    ELSE LET line == Head(lines)
         IN  IF ~contains(line, X) THEN import_entries(Tail(lines), deck_dict)
             ELSE LET parts == split_x(line)
                  IN  IF Len(parts) # 2 THEN [deck |-> deck_dict, raised |-> "unpack"]
                      ELSE LET count == int_parse(parts[1])
                               card_id == parts[2]
                           IN  IF ~count.ok
                               THEN [deck |-> deck_dict, raised |-> "invalid_int"]
                               ELSE IF rows_with_id(card_id) # <<>>
                               THEN import_entries(Tail(lines),
                                                   deck_set(deck_dict, card_id, count.val))
                               ELSE import_entries(Tail(lines), deck_dict)

\* The leader row of the catalog, or the session's "no leader".
None ==
    [card_id |-> <<>>, card_name |-> <<>>, color |-> <<>>, type |-> "None",
     cost |-> <<>>, counter |-> "-", attribute |-> <<>>, feature |-> <<>>,
     block |-> "-", info |-> <<>>, text |-> <<>>, trigger |-> <<>>,
     feature_list |-> <<>>, attribute_list |-> <<>>, cost_num |-> 0,
     series_id |-> <<>>, sort_key |-> MaximalKey]

\* The common part of an import, and how it ends:
\*   "empty"            no line after the optional name line
\*   "leader_no_x"      the leader line has no "x"
\*   "unpack"           the leader line does not split into two pieces
\*   "leader_not_found" the leader ID is not a catalog row
\*   "entry_unpack", "entry_invalid_int"
\*                      an entry line raised, after the three assignments
\*   "ok"               the loop ran to its end
\* assigned tells whether session_state["leader"], ["deck"] and
\* ["deck_name"] were assigned; leader, deck and deck_name are their values.
Unassigned(end) ==
    [end |-> end, assigned |-> FALSE, leader |-> None, deck |-> <<>>, deck_name |-> <<>>]

\* parse_deck resetting the session before the leader line is validated
parse_deck_as_reset_first(text) ==
    LET lines == nonempty_lines(text)
        start == start_idx(lines)
        reset(end) == [end |-> end, assigned |-> TRUE, leader |-> None, deck |-> <<>>,
                       deck_name |-> imported_deck_name(lines)]
    IN  IF ~(start < Len(lines)) THEN Unassigned("empty")
        ELSE LET first_line == lines[start + 1]
             IN  IF ~contains(first_line, X) THEN reset("leader_no_x")
                 ELSE LET parts == split_x(first_line)
                      IN  IF Len(parts) # 2 THEN reset("unpack")
                          ELSE LET leader_row == rows_with_id(parts[2])
                               IN  IF leader_row = <<>> THEN reset("leader_not_found")
                                   ELSE LET r == import_entries(
                                                     SubSeq(lines, start + 2, Len(lines)), <<>>)
                                        IN  [end |-> IF r.raised = "none" THEN "ok"
                                                     ELSE IF r.raised = "unpack" THEN "entry_unpack"
                                                     ELSE "entry_invalid_int",
                                             assigned |-> TRUE,
                                             leader |-> leader_row[1],
                                             deck |-> r.deck,
                                             deck_name |-> imported_deck_name(lines)]

parse_deck(text) ==
    LET lines == nonempty_lines(text)
        start == start_idx(lines)
    IN  IF ~(start < Len(lines)) THEN Unassigned("empty")
        ELSE LET first_line == lines[start + 1]
             IN  IF ~contains(first_line, X) THEN Unassigned("leader_no_x")
                 ELSE LET parts == split_x(first_line)
                      IN  IF Len(parts) # 2 THEN Unassigned("unpack")
                          ELSE LET leader_row == rows_with_id(parts[2])
                               IN  IF leader_row = <<>> THEN Unassigned("leader_not_found")
                                   ELSE LET r == import_entries(
                                                     SubSeq(lines, start + 2, Len(lines)), <<>>)
                                        IN  [end |-> IF r.raised = "none" THEN "ok"
                                                     ELSE IF r.raised = "unpack" THEN "entry_unpack"
                                                     ELSE "entry_invalid_int",
                                             assigned |-> TRUE,
                                             leader |-> leader_row[1],
                                             deck |-> r.deck,
                                             deck_name |-> imported_deck_name(lines)]

(***************************************************************************)
(* filter_cards                                                            *)
(***************************************************************************)
\* The arguments of one call.  A multiselect value is a set (only its
\* membership and its emptiness are read), free_words is text, and
\* leader_colors is the set of the leader's colors ({} for None).
NoFilter ==
    [colors |-> {}, types |-> {}, costs |-> {}, counters |-> {}, attributes |-> {},
     blocks |-> {}, feature_selected |-> {}, free_words |-> <<>>, series_ids |-> {},
     leader_colors |-> {}]

list_set(lst) == {lst[i] : i \in 1..Len(lst)}

\* Series.str.contains(k, case=False)
str_contains(field, k) == contains(lower(field), lower(k))

\* every keyword narrows the result: the row matches keyword k in one of the
\* four text columns
matches_keyword(r, k) ==
    \/ str_contains(r.card_name, k)
    \/ str_contains(r.feature, k)
    \/ str_contains(r.text, k)
    \/ str_contains(r.trigger, k)

\* a < b for two rows under by=["sort_key", "cost_num", "card_id"]
sort_key_lt(a, b) ==
    IF a[1] # b[1] THEN a[1] < b[1]
    ELSE IF a[2] # b[2] THEN a[2] < b[2]
    ELSE IF a[3] # b[3] THEN a[3] < b[3]
    ELSE a[4] < b[4]

row_lt(a, b) ==
    IF a.sort_key # b.sort_key THEN sort_key_lt(a.sort_key, b.sort_key)
    ELSE IF a.cost_num # b.cost_num THEN a.cost_num < b.cost_num
    ELSE str_lt(a.card_id, b.card_id)

RECURSIVE insert_row(_, _)
insert_row(sorted, r) ==
    IF sorted = <<>> THEN <<r>>
    ELSE IF row_lt(r, Head(sorted)) THEN <<r>> \o sorted
    ELSE <<Head(sorted)>> \o insert_row(Tail(sorted), r)

RECURSIVE sort_rows_from(_, _)
sort_rows_from(rest, sorted) ==
    IF rest = <<>> THEN sorted
    ELSE sort_rows_from(Tail(rest), insert_row(sorted, Head(rest)))

\* results.sort_values(by=[...], ascending=[True, True, True])
sort_values(rows) == sort_rows_from(rows, <<>>)

\* for k in keywords: results = results[name | feature | text | trigger contains k]
RECURSIVE keep_keywords(_, _)
keep_keywords(results, keywords) ==
    IF keywords = <<>> THEN results
    ELSE keep_keywords(SelectSeq(results, LAMBDA r : matches_keyword(r, Head(keywords))),
                       Tail(keywords))

\* filter_cards without the step that drops the LEADER rows
filter_cards_as_keep_leaders(cat, f) ==
    LET r1 == IF f.leader_colors # {}
              THEN SelectSeq(cat, LAMBDA r : \E lc \in f.leader_colors : contains(r.color, lc))
              ELSE cat
        r2 == IF f.colors # {}
              THEN SelectSeq(r1, LAMBDA r : \E col \in f.colors : contains(r.color, col))
              ELSE r1
        r3 == IF f.types # {} THEN SelectSeq(r2, LAMBDA r : r.type \in f.types) ELSE r2
        r4 == IF f.costs # {} THEN SelectSeq(r3, LAMBDA r : r.cost_num \in f.costs) ELSE r3
        r5 == IF f.counters # {} THEN SelectSeq(r4, LAMBDA r : r.counter \in f.counters) ELSE r4
        r6 == IF f.attributes # {}
              THEN SelectSeq(r5, LAMBDA r : \E attr \in f.attributes :
                                               attr \in list_set(r.attribute_list))
              ELSE r5
        r7 == IF f.blocks # {} THEN SelectSeq(r6, LAMBDA r : r.block \in f.blocks) ELSE r6
        r8 == IF f.series_ids # {}
              THEN SelectSeq(r7, LAMBDA r : r.series_id \in f.series_ids) ELSE r7
        r9 == IF f.feature_selected # {}
              THEN SelectSeq(r8, LAMBDA r : \E ft \in f.feature_selected :
                                               ft \in list_set(r.feature_list))
              ELSE r8
        r10 == IF f.free_words # <<>> THEN keep_keywords(r9, split_ws(f.free_words)) ELSE r9
    IN  sort_values(r10)

\* filter_cards returning the rows in catalog order
filter_cards_as_unsorted(cat, f) ==
    LET r1 == IF f.leader_colors # {}
              THEN SelectSeq(SelectSeq(cat, LAMBDA r : r.type # "LEADER"),
                             LAMBDA r : \E lc \in f.leader_colors : contains(r.color, lc))
              ELSE cat
        r2 == IF f.colors # {}
              THEN SelectSeq(r1, LAMBDA r : \E col \in f.colors : contains(r.color, col))
              ELSE r1
        r3 == IF f.types # {} THEN SelectSeq(r2, LAMBDA r : r.type \in f.types) ELSE r2
        r4 == IF f.costs # {} THEN SelectSeq(r3, LAMBDA r : r.cost_num \in f.costs) ELSE r3
        r5 == IF f.counters # {} THEN SelectSeq(r4, LAMBDA r : r.counter \in f.counters) ELSE r4
        r6 == IF f.attributes # {}
              THEN SelectSeq(r5, LAMBDA r : \E attr \in f.attributes :
                                               attr \in list_set(r.attribute_list))
              ELSE r5
        r7 == IF f.blocks # {} THEN SelectSeq(r6, LAMBDA r : r.block \in f.blocks) ELSE r6
        r8 == IF f.series_ids # {}
              THEN SelectSeq(r7, LAMBDA r : r.series_id \in f.series_ids) ELSE r7
        r9 == IF f.feature_selected # {}
              THEN SelectSeq(r8, LAMBDA r : \E ft \in f.feature_selected :
                                               ft \in list_set(r.feature_list))
              ELSE r8
        r10 == IF f.free_words # <<>> THEN keep_keywords(r9, split_ws(f.free_words)) ELSE r9
    IN  r10

\* filter_cards with the type step reading df instead of results
filter_cards_as_reset(cat, f) ==
    LET r1 == IF f.leader_colors # {}
              THEN SelectSeq(SelectSeq(cat, LAMBDA r : r.type # "LEADER"),
                             LAMBDA r : \E lc \in f.leader_colors : contains(r.color, lc))
              ELSE cat
        r2 == IF f.colors # {}
              THEN SelectSeq(r1, LAMBDA r : \E col \in f.colors : contains(r.color, col))
              ELSE r1
        r3 == IF f.types # {} THEN SelectSeq(cat, LAMBDA r : r.type \in f.types) ELSE r2
        r4 == IF f.costs # {} THEN SelectSeq(r3, LAMBDA r : r.cost_num \in f.costs) ELSE r3
        r5 == IF f.counters # {} THEN SelectSeq(r4, LAMBDA r : r.counter \in f.counters) ELSE r4
        r6 == IF f.attributes # {}
              THEN SelectSeq(r5, LAMBDA r : \E attr \in f.attributes :
                                               attr \in list_set(r.attribute_list))
              ELSE r5
        r7 == IF f.blocks # {} THEN SelectSeq(r6, LAMBDA r : r.block \in f.blocks) ELSE r6
        r8 == IF f.series_ids # {}
              THEN SelectSeq(r7, LAMBDA r : r.series_id \in f.series_ids) ELSE r7
        r9 == IF f.feature_selected # {}
              THEN SelectSeq(r8, LAMBDA r : \E ft \in f.feature_selected :
                                               ft \in list_set(r.feature_list))
              ELSE r8
        r10 == IF f.free_words # <<>> THEN keep_keywords(r9, split_ws(f.free_words)) ELSE r9
    IN  sort_values(r10)

\* filter_cards: results starts as a copy of df and every step that is
\* switched on narrows it; the result is sorted.
filter_cards(cat, f) ==
    LET r1 == IF f.leader_colors # {}
              THEN SelectSeq(SelectSeq(cat, LAMBDA r : r.type # "LEADER"),
                             LAMBDA r : \E lc \in f.leader_colors : contains(r.color, lc))
              ELSE cat
        r2 == IF f.colors # {}
              THEN SelectSeq(r1, LAMBDA r : \E col \in f.colors : contains(r.color, col))
              ELSE r1
        r3 == IF f.types # {} THEN SelectSeq(r2, LAMBDA r : r.type \in f.types) ELSE r2
        r4 == IF f.costs # {} THEN SelectSeq(r3, LAMBDA r : r.cost_num \in f.costs) ELSE r3
        r5 == IF f.counters # {} THEN SelectSeq(r4, LAMBDA r : r.counter \in f.counters) ELSE r4
        r6 == IF f.attributes # {}
              THEN SelectSeq(r5, LAMBDA r : \E attr \in f.attributes :
                                               attr \in list_set(r.attribute_list))
              ELSE r5
        r7 == IF f.blocks # {} THEN SelectSeq(r6, LAMBDA r : r.block \in f.blocks) ELSE r6
        r8 == IF f.series_ids # {}
              THEN SelectSeq(r7, LAMBDA r : r.series_id \in f.series_ids) ELSE r7
        r9 == IF f.feature_selected # {}
              THEN SelectSeq(r8, LAMBDA r : \E ft \in f.feature_selected :
                                               ft \in list_set(r.feature_list))
              ELSE r8
        r10 == IF f.free_words # <<>> THEN keep_keywords(r9, split_ws(f.free_words)) ELSE r9
    IN  sort_values(r10)

\* leader_colors = [c.strip() for c in leader["color"].replace(fullwidth, "/")
\*                  .split("/") if c.strip()]
leader_colors_of(leader_card) ==
    list_set(SelectSeq(strip_all(split(replace_char(leader_card.color, "|", "/"), "/")),
                       LAMBDA c : c # <<>>))


(***************************************************************************)
(* create_deck_image: the canvas, the card-image downloads and the grid.   *)
(* What an HTTP request for a card image does is an input: "ok" (status    *)
(* 200 and a decodable image), "status" (a response with another status),  *)
(* "network_error" (requests raises, a timeout included), "decode_error"   *)
(* (Image.open raises).                                                    *)
(***************************************************************************)
FINAL_WIDTH == 2150
FINAL_HEIGHT == 2048
GRID_HEIGHT == 1500
UPPER_HEIGHT == FINAL_HEIGHT - GRID_HEIGHT
card_width == 215
card_height == 300
cards_per_row == 10
cards_per_col == 5
margin_card == 0

FetchOutcomes == {"ok", "status", "network_error", "decode_error"}

\* download_card_image: the pair (card_id, card_img) when the status is 200,
\* the pair (card_id, None) when an exception is caught; with another status
\* the function ends without a return statement and gives None.
download_card_image(outcome) ==
    CASE outcome = "ok" -> [returns |-> "pair", card_img |-> TRUE]
      [] outcome = "status" -> [returns |-> "None", card_img |-> FALSE]
      [] OTHER -> [returns |-> "pair", card_img |-> FALSE]

\* all_deck_cards.extend([card_id] * count) for each sorted entry
RECURSIVE all_deck_cards(_)
all_deck_cards(cards) ==
    IF cards = <<>> THEN <<>>
    ELSE as_list([i \in 1..Head(cards).count |-> Head(cards).card_id])
         \o all_deck_cards(Tail(cards))

\* the grid with a cell for every card of the deck, however many
grid_cells_as_unbounded(all_cards, card_images) ==
    as_list([i \in 1..Len(all_cards) |->
        LET idx == i - 1
            row == idx \div cards_per_row
            col == idx % cards_per_row
            x_start == (FINAL_WIDTH - (card_width * cards_per_row
                                       + margin_card * (cards_per_row - 1))) \div 2
        IN  [card_id |-> all_cards[i], row |-> row, col |-> col,
             x |-> x_start + col * (card_width + margin_card),
             y |-> UPPER_HEIGHT + row * (card_height + margin_card),
             pasted |-> all_cards[i] \in card_images]])

\* for idx, card_id in enumerate(all_deck_cards): the cells of the grid, up
\* to the break at cards_per_row * cards_per_col
grid_cells(all_cards, card_images) ==
    LET y_start == UPPER_HEIGHT
        x_start == (FINAL_WIDTH - (card_width * cards_per_row
                                   + margin_card * (cards_per_row - 1))) \div 2
        shown == Min({Len(all_cards), cards_per_row * cards_per_col})
    IN  as_list([i \in 1..shown |->
            LET idx == i - 1
                row == idx \div cards_per_row
                col == idx % cards_per_row
            IN  [card_id |-> all_cards[i], row |-> row, col |-> col,
                 x |-> x_start + col * (card_width + margin_card),
                 y |-> y_start + row * (card_height + margin_card),
                 pasted |-> all_cards[i] \in card_images]])

NoImage ==
    [raised |-> TRUE, qr_data |-> <<>>, leader_pasted |-> FALSE, cells |-> <<>>,
     size |-> <<0, 0>>]

\* the thumbnails of the deck: the downloads of the cards to show, whose
\* unpacking raises on a None, and the grid loop over them
card_grid(all_cards, fetch) ==
    LET shown == Min({Len(all_cards), cards_per_row * cards_per_col})
        cards_to_download == {all_cards[i] : i \in 1..shown}
        card_images == {c \in cards_to_download :
                            download_card_image(fetch.cards[c]).card_img}
    IN  [raised |-> \E c \in cards_to_download :
                        download_card_image(fetch.cards[c]).returns = "None",
         cells |-> grid_cells(all_cards, card_images)]

\* what create_deck_image gives from the QR payload, the leader's download
\* and the grid
finished_image(qr_data, leader_dl, grid) ==
    IF grid.raised
    THEN NoImage
    ELSE [raised |-> FALSE, qr_data |-> qr_data,
          leader_pasted |-> leader_dl.returns = "pair" /\ leader_dl.card_img,
          cells |-> grid.cells,
          size |-> <<FINAL_WIDTH, FINAL_HEIGHT>>]

\* create_deck_image(leader, deck_dict, df, deck_name); fetch.leader is the
\* outcome of the request for the leader's image, fetch.cards[card_id] that
\* of the request for a thumbnail.  The leader's download is inside a
\* try/except, the unpacking of a thumbnail's download is not: a None
\* there raises TypeError out of the function.
create_deck_image(leader_card, deck_dict, name, fetch) ==
    finished_image(deck_text(leader_card, deck_dict, name),
                   download_card_image(fetch.leader),
                   card_grid(all_deck_cards(deck_cards_sorted(deck_dict)), fetch))

(***************************************************************************)
(* Bounds and inputs                                                       *)
(***************************************************************************)
\* the buttons add a card ID that is not yet in the deck only below this size
MaxDeckKeys == 1
\* the buttons add a copy only while the deck holds fewer cards than this
MaxTotal == 4
Test == <<"T", "e", "s", "t">>

\* what the user can type as the deck name
DeckNames == {<<>>, Test, <<" ", "T">>}

NO_ID == <<"N", "O">>

NameLineTest == <<"#", " ">> \o Test

\* lines of an import text
LeaderLine1 == <<"1", "x">> \o LEAD_001
LeaderLine2 == <<"1", "x">> \o LEAD_002
Line_4_CARD_001 == <<"4", "x">> \o CARD_001
Line_1_EVx_01 == <<"1", "x">> \o EVx_01
Line_z_CARD_002 == <<"z", "x">> \o CARD_002
Line_z_NO == <<"z", "x">> \o NO_ID
Line_1_NO == <<"1", "x">> \o NO_ID

make_text(lines) == join(NL, lines)

\* The texts an importer can be given: the text area, the payload decoded
\* from an uploaded image ("" when no code is found), the content of a file.
ImportTexts ==
    << <<>>,
       <<" ", "\n">>,
       NameLineTest,
       \* well-formed
       make_text(<<NameLineTest, LeaderLine1, Line_4_CARD_001>>),
       make_text(<<LeaderLine2, <<" ", "2", "x">> \o CARD_002 \o <<" ">>,
                   <<"3", "x">> \o OP01_075>>),
       \* an entry line without "x", an entry line with an unknown ID
       make_text(<<NameLineTest, LeaderLine1, CARD_002, Line_4_CARD_001>>),
       make_text(<<LeaderLine1, Line_1_NO, Line_4_CARD_001>>),
       \* an entry line whose count is not a number
       make_text(<<LeaderLine2, <<"3", "x">> \o OP01_075, Line_z_CARD_002>>),
       make_text(<<LeaderLine1, Line_z_NO, Line_4_CARD_001>>),
       \* an "x" in the card ID of an entry line
       make_text(<<LeaderLine1, Line_1_EVx_01, Line_4_CARD_001>>),
       make_text(<<LeaderLine1, Line_1_NO \o <<"x">>, Line_4_CARD_001>>),
       \* a card with no color, a stage and a character
       make_text(<<LeaderLine2, <<"1", "x">> \o DON_001, <<"1", "x">> \o STG_001,
                   <<"2", "x">> \o CARD_002>>),
       \* a leader line whose count is not a number
       make_text(<< <<"z", "x">> \o LEAD_001, Line_4_CARD_001 >>),
       \* leader lines that are refused
       make_text(<<NameLineTest, LEAD_001, Line_4_CARD_001>>),
       make_text(<<NameLineTest, Line_1_NO, Line_4_CARD_001>>),
       make_text(<<NameLineTest, Line_1_EVx_01, Line_4_CARD_001>>),
       make_text(<<NameLineTest, Line_1_NO \o <<"x">>, Line_4_CARD_001>>),
       \* more copies of a card than the add buttons give
       make_text(<<LeaderLine1, <<"5", "x">> \o CARD_001>>),
       \* an entry line with the count 0
       make_text(<<LeaderLine1, <<"0", "x">> \o CARD_001>>),
       \* a leader line that names a character, an entry line that names a leader
       make_text(<<<<"1", "x">> \o CARD_001, LeaderLine2>>) >>

TextIds == 1..Len(ImportTexts)

\* the filter widgets of the add-cards screen
DeckFilters ==
    {NoFilter,
     [NoFilter EXCEPT !.types = {"CHARACTER"}],
     [NoFilter EXCEPT !.costs = {3}, !.free_words = <<"k", "o">>]}

(***************************************************************************)
(* The session (deck mode)                                                 *)
(***************************************************************************)
VARIABLES
    leader,      \* st.session_state["leader"]: a catalog row, or None
    deck,        \* st.session_state["deck"]
    deck_name,   \* st.session_state["deck_name"]
    deck_view,   \* st.session_state["deck_view"]
    op,          \* the handler that ran last
    msg,         \* what the last handler reported in the sidebar
    last_text,   \* the text the last importer was given
    out,         \* what the last handler produced (export text, image, file)
    args,        \* the arguments of a call of a pure function, outside a session
    result       \* what that call returned

vars == <<leader, deck, deck_name, deck_view, op, msg, last_text, out, args, result>>

session == <<leader, deck, deck_name, deck_view>>

NoMsg == [kind |-> "none", reason |-> "none"]
Msg(k, r) == [kind |-> k, reason |-> r]
NoOut == [kind |-> "none", name |-> <<>>, text |-> <<>>]
NoArgs == [fn |-> "none"]
NoResult == [returned |-> FALSE]

\* the session after the script's first run (session_state initialisation)
InitSession ==
    /\ leader = None
    /\ deck = <<>>
    /\ deck_name = <<>>
    /\ deck_view = "leader"
    /\ op = "init"
    /\ msg = NoMsg
    /\ last_text = <<>>
    /\ out = NoOut

Init == InitSession /\ args = NoArgs /\ result = NoResult

\* a handler of the session calls no function on its own
NoCall == UNCHANGED <<args, result>>

\* a handler that reports nothing and produces nothing
Quiet(o) == op' = o /\ msg' = NoMsg /\ last_text' = <<>> /\ out' = NoOut /\ NoCall

\* is_unlimited with the allow-list ignored
is_unlimited_as_never(card_id) == FALSE

\* is_unlimited with every card on the allow-list
is_unlimited_as_always(card_id) == TRUE

is_unlimited(card_id) == InSeq(UNLIMITED_CARDS, card_id)

\* disabled=(not is_unlimited and current >= 4): the cap check of the "+"
\* buttons of a card, which the screen shows by greying the button out
add_disabled(card_id, current) == ~is_unlimited(card_id) /\ current >= 4

\* the indicator under the deck list of the sidebar, shown on every run
capacity_status(deck_dict) ==
    IF total_cards(deck_dict) > 50 THEN "error_over_50"
    ELSE IF total_cards(deck_dict) < 50 THEN "info_remaining"
    ELSE "success_complete"

\* the deck-name text input of the sidebar
SetDeckName(deck_name_input) ==
    /\ leader # None
    /\ deck_name_input # deck_name
    /\ deck_name' = deck_name_input
    /\ UNCHANGED <<leader, deck, deck_view>>
    /\ Quiet("ui")

\* the sidebar "+" button of a deck entry, pressed
SidebarAddPressed(card_id) ==
    /\ has_key(deck, card_id)
    /\ LET current == deck_get(deck, card_id)
       IN  /\ ~add_disabled(card_id, current)
           /\ is_unlimited(card_id) \/ current < 4
           /\ deck' = deck_set(deck, card_id, current + 1)
    /\ UNCHANGED <<leader, deck_name, deck_view>>
    /\ Quiet("ui")

\* the sidebar "+" button of a deck entry
SidebarAdd(card_id) ==
    /\ total_cards(deck) < MaxTotal
    /\ SidebarAddPressed(card_id)

\* the sidebar "-" button of a deck entry
SidebarRemove(card_id) ==
    /\ has_key(deck, card_id)
    /\ LET current == deck_get(deck, card_id)
       IN  /\ ~(current = 0)
           /\ deck' = IF current > 0
                      THEN (IF current > 1
                            THEN deck_set(deck, card_id, current - 1)
                            ELSE deck_del(deck, card_id))
                      ELSE deck
    /\ UNCHANGED <<leader, deck_name, deck_view>>
    /\ Quiet("ui")

\* the preview button of the sidebar
PreviewButton ==
    /\ leader # None
    /\ deck_view' = "preview"
    /\ UNCHANGED <<leader, deck, deck_name>>
    /\ Quiet("ui")

\* the export button
Export ==
    /\ op' = "export"
    /\ NoCall
    /\ last_text' = <<>>
    /\ UNCHANGED session
    /\ IF leader = None
       THEN msg' = Msg("warning", "no_leader") /\ out' = NoOut
       ELSE /\ msg' = NoMsg
            /\ out' = [kind |-> "export", name |-> deck_name,
                       text |-> export_text(leader, deck, deck_name)]

\* what the requests of one image generation can do: all succeed, or one
\* of them (the leader's or one thumbnail's) does not
AllOk(deck_dict) == [leader |-> "ok", cards |-> [c \in deck_keys(deck_dict) |-> "ok"]]

Fetches(deck_dict) ==
    {AllOk(deck_dict)}
    \cup {[AllOk(deck_dict) EXCEPT !.leader = o] : o \in FetchOutcomes}
    \cup {[AllOk(deck_dict) EXCEPT !.cards[c] = o] :
              c \in deck_keys(deck_dict), o \in FetchOutcomes}

\* the requests of an image generation in a session, by what the handler
\* makes of them: all succeed, the leader's request raises, or a thumbnail's
\* request is answered with another status
SessionFetches(deck_dict) ==
    {AllOk(deck_dict), [AllOk(deck_dict) EXCEPT !.leader = "network_error"]}
    \cup {[AllOk(deck_dict) EXCEPT !.cards[c] = "status"] : c \in deck_keys(deck_dict)}

\* the image button: create_deck_image, of which the QR payload is kept.
\* Nothing catches an exception of create_deck_image: it ends the script
\* run ("exception") before the image is shown.
GenerateImage(fetch) ==
    /\ op' = "image"
    /\ NoCall
    /\ last_text' = <<>>
    /\ UNCHANGED session
    /\ IF leader = None
       THEN msg' = Msg("warning", "no_leader") /\ out' = NoOut
       ELSE LET deck_img == create_deck_image(leader, deck, deck_name, fetch)
            IN  IF deck_img.raised
                THEN msg' = Msg("exception", "TypeError") /\ out' = NoOut
                ELSE /\ msg' = NoMsg
                     /\ out' = [kind |-> "image", name |-> deck_name,
                                text |-> deck_img.qr_data]

\* the save button: writes saved_decks/<name>.txt
SaveDeck ==
    /\ op' = "save"
    /\ NoCall
    /\ last_text' = <<>>
    /\ UNCHANGED session
    /\ LET current_deck_name == deck_name
       IN  IF current_deck_name = <<>>
           THEN msg' = Msg("warning", "no_name") /\ out' = NoOut
           ELSE IF leader = None
           THEN msg' = Msg("warning", "no_leader") /\ out' = NoOut
           ELSE /\ msg' = Msg("success", "saved")
                /\ out' = [kind |-> "save", name |-> current_deck_name,
                           text |-> save_text(leader, deck, current_deck_name)]


\* what the importers do with each text they can be given, computed once
Parsed == as_list([i \in TextIds |-> parse_deck(ImportTexts[i])])

\* Imported without the assignment of an empty dict to the deck: the
\* entries of the text are written over the deck that was there
Imported_as_merge(r) ==
    /\ leader' = IF r.assigned THEN r.leader ELSE leader
    /\ deck' = IF r.assigned
               THEN SelectSeq(deck, LAMBDA e : e.card_id \notin deck_keys(r.deck)) \o r.deck
               ELSE deck
    /\ deck_name' = IF r.assigned THEN r.deck_name ELSE deck_name
    /\ deck_view' = IF r.end = "ok" THEN "preview" ELSE deck_view

\* The session after the common part of an import: the three assignments
\* are made as soon as the leader row is found, deck_view moves to "preview"
\* only when the entry loop ran to its end.
Imported(r) ==
    /\ leader' = IF r.assigned THEN r.leader ELSE leader
    /\ deck' = IF r.assigned THEN r.deck ELSE deck
    /\ deck_name' = IF r.assigned THEN r.deck_name ELSE deck_name
    /\ deck_view' = IF r.end = "ok" THEN "preview" ELSE deck_view

\* the text-import button; every exception is caught and reported
TextImport(i) ==
    /\ op' = "text_import"
    /\ NoCall
    /\ last_text' = ImportTexts[i]
    /\ out' = NoOut
    /\ IF strip(ImportTexts[i]) = <<>>
       THEN msg' = Msg("warning", "no_input") /\ UNCHANGED session
       ELSE LET r == Parsed[i]
            IN  /\ Imported(r)
                /\ msg' = CASE r.end = "ok" -> Msg("success", "imported")
                            [] r.end = "empty" -> NoMsg
                            [] r.end = "leader_not_found" -> Msg("error", "leader_not_found")
                            [] OTHER -> Msg("error", r.end)

\* an uploaded image; ImportTexts[i] is qr_data, what the detector decoded
QrImport(i) ==
    /\ op' = "qr_import"
    /\ NoCall
    /\ last_text' = ImportTexts[i]
    /\ out' = NoOut
    /\ IF ImportTexts[i] = <<>>
       THEN msg' = Msg("warning", "qr_not_found") /\ UNCHANGED session
       ELSE LET r == Parsed[i]
            IN  /\ Imported(r)
                /\ msg' = CASE r.end = "ok" -> Msg("success", "imported")
                            [] r.end = "empty" -> Msg("error", "empty")
                            [] r.end = "leader_not_found" -> Msg("error", "leader_not_found")
                            [] OTHER -> Msg("error", r.end)

\* the load button of a saved deck; ImportTexts[i] is loaded_text.
\* Nothing catches an exception here: it ends the script run ("exception").
LoadSaved(i) ==
    /\ op' = "load"
    /\ NoCall
    /\ last_text' = ImportTexts[i]
    /\ out' = NoOut
    /\ LET r == Parsed[i]
       IN  /\ Imported(r)
           /\ msg' = CASE r.end = "ok" -> Msg("success", "imported")
                       [] r.end = "empty" -> Msg("error", "file_invalid")
                       [] r.end = "leader_no_x" -> Msg("error", "file_invalid")
                       [] r.end = "leader_not_found" -> Msg("error", "leader_not_found")
                       [] OTHER -> Msg("exception", r.end)

\* the load button when the selected file is gone
LoadMissing ==
    /\ op' = "load"
    /\ NoCall
    /\ last_text' = <<>>
    /\ out' = NoOut
    /\ msg' = Msg("error", "file_not_found")
    /\ UNCHANGED session

\* the delete button of a saved deck: os.remove succeeds
DeleteSaved ==
    /\ op' = "delete"
    /\ NoCall
    /\ last_text' = <<>>
    /\ out' = NoOut
    /\ msg' = Msg("success", "deleted")
    /\ deck_view' = "leader"
    /\ UNCHANGED <<leader, deck, deck_name>>

\* the delete button of a saved deck: os.remove raises
DeleteFails ==
    /\ op' = "delete"
    /\ NoCall
    /\ last_text' = <<>>
    /\ out' = NoOut
    /\ msg' = Msg("error", "delete")
    /\ UNCHANGED session

\* main area, leader selection: shown when deck_view is "leader" or no leader
\* is set; one button per catalog row of type LEADER
SelectLeader(row) ==
    /\ deck_view = "leader" \/ leader = None
    /\ row.type = "LEADER"
    /\ leader' = row
    /\ deck' = <<>>
    /\ deck_name' = <<>>
    /\ deck_view' = "preview"
    /\ Quiet("select_leader")

\* ChangeLeader without the assignment to deck_view
ChangeLeader_as_keep_view ==
    /\ ~(deck_view = "leader" \/ leader = None)
    /\ deck_view = "preview"
    /\ leader' = None
    /\ deck' = <<>>
    /\ UNCHANGED <<deck_name, deck_view>>
    /\ Quiet("ui")

\* main area, preview: the change-leader button
ChangeLeader ==
    /\ ~(deck_view = "leader" \/ leader = None)
    /\ deck_view = "preview"
    /\ leader' = None
    /\ deck' = <<>>
    /\ deck_view' = "leader"
    /\ UNCHANGED deck_name
    /\ Quiet("ui")

\* main area, preview: the add-card button
AddCardButton ==
    /\ ~(deck_view = "leader" \/ leader = None)
    /\ deck_view = "preview"
    /\ deck_view' = "add_cards"
    /\ UNCHANGED <<leader, deck, deck_name>>
    /\ Quiet("ui")

\* BackToLeader without deck.clear()
BackToLeader_as_keep_deck ==
    /\ ~(deck_view = "leader" \/ leader = None)
    /\ deck_view = "preview"
    /\ leader' = None
    /\ deck_view' = "leader"
    /\ UNCHANGED <<deck, deck_name>>
    /\ Quiet("ui")

\* main area, preview: the back-to-leader-selection button
BackToLeader ==
    /\ ~(deck_view = "leader" \/ leader = None)
    /\ deck_view = "preview"
    /\ leader' = None
    /\ deck' = <<>>
    /\ deck_view' = "leader"
    /\ UNCHANGED deck_name
    /\ Quiet("ui")

\* the else branch of the main area: the add-cards screen
in_add_cards == ~(deck_view = "leader" \/ leader = None) /\ deck_view # "preview"

\* color_cards: the cards the add-cards screen lists under filter f
deck_results(f) ==
    filter_cards(df, [f EXCEPT !.colors = {}, !.leader_colors = leader_colors_of(leader)])

\* the card IDs of the grid: one "+" and one "-" button per listed card
color_cards(f) ==
    IF in_add_cards
    THEN LET results == deck_results(f)
         IN  {results[i].card_id : i \in 1..Len(results)}
    ELSE {}

BackToPreview ==
    /\ in_add_cards
    /\ deck_view' = "preview"
    /\ UNCHANGED <<leader, deck, deck_name>>
    /\ Quiet("ui")

\* add-cards screen: the "+" button of card_id, a card of color_cards(f),
\* pressed
AddCardPressed(f, card_id) ==
    /\ in_add_cards
    /\ LET current_count == deck_get(deck, card_id)
           count == deck_get(deck, card_id)
       IN  /\ ~add_disabled(card_id, current_count)
           /\ is_unlimited(card_id) \/ count < 4
           /\ deck' = deck_set(deck, card_id, count + 1)
    /\ UNCHANGED <<leader, deck_name, deck_view>>
    /\ Quiet("ui")

\* add-cards screen: the "+" button of card_id
AddCard(f, card_id) ==
    /\ has_key(deck, card_id) \/ Len(deck) < MaxDeckKeys
    /\ total_cards(deck) < MaxTotal
    /\ AddCardPressed(f, card_id)

\* add-cards screen: the "-" button of card_id, a card of color_cards(f)
SubCard(f, card_id) ==
    /\ in_add_cards
    /\ ~(deck_get(deck, card_id) = 0)
    /\ deck' = IF has_key(deck, card_id) /\ deck_get(deck, card_id) > 0
               THEN (IF deck_get(deck, card_id) - 1 = 0
                     THEN deck_del(deck, card_id)
                     ELSE deck_set(deck, card_id, deck_get(deck, card_id) - 1))
               ELSE deck
    /\ UNCHANGED <<leader, deck_name, deck_view>>
    /\ Quiet("ui")

CardIds == {df[i].card_id : i \in 1..Len(df)}

Next ==
    \/ \E n \in DeckNames : SetDeckName(n)
    \/ \E c \in CardIds : SidebarAdd(c)
    \/ \E c \in CardIds : SidebarRemove(c)
    \/ PreviewButton
    \/ Export
    \/ \E fetch \in SessionFetches(deck) : GenerateImage(fetch)
    \/ SaveDeck
    \/ \E i \in TextIds : QrImport(i)
    \/ \E i \in TextIds : TextImport(i)
    \/ \E i \in TextIds : LoadSaved(i)
    \/ LoadMissing
    \/ DeleteSaved
    \/ DeleteFails
    \/ \E i \in 1..Len(df) : SelectLeader(df[i])
    \/ ChangeLeader
    \/ AddCardButton
    \/ BackToLeader
    \/ BackToPreview
    \/ \E f \in DeckFilters : \E c \in color_cards(f) : AddCard(f, c)
    \/ \E f \in DeckFilters : \E c \in color_cards(f) : SubCard(f, c)

Spec == Init /\ [][Next]_vars


(***************************************************************************)
(* What the properties below read off a color text and a type              *)
(***************************************************************************)
\* the canonical indices of the known colors that occur in a color text
C9_occurring(c) ==
    {i \in 0..(Len(color_order) - 1) : \E k \in 1..Len(c) : c[k] = color_order[i + 1]}

C9_has_slash(c) == \E k \in 1..Len(c) : c[k] \in {"/", "|"}

C9_known_rank == [LEADER |-> 0, CHARACTER |-> 1, EVENT |-> 2, STAGE |-> 3]

(***************************************************************************)
(* What the properties below read off an import text                       *)
(***************************************************************************)
Importers == {"text_import", "qr_import", "load"}

has_x(line) == \E k \in 1..Len(line) : line[k] = "x"

\* the text before the first "x" of a line, and everything after it
first_x(line) == Min({k \in 1..Len(line) : line[k] = "x"})
count_text(line) == SubSeq(line, 1, first_x(line) - 1)
id_text(line) == SubSeq(line, first_x(line) + 1, Len(line))

in_catalog(card_id) == \E i \in 1..Len(RawCatalog) : RawCatalog[i].card_id = card_id

\* the leader line: the first non-empty line after an optional name line
has_leader_line(text) == start_idx(nonempty_lines(text)) < Len(nonempty_lines(text))
leader_line_of(text) == nonempty_lines(text)[start_idx(nonempty_lines(text)) + 1]
entry_lines_of(text) ==
    SubSeq(nonempty_lines(text), start_idx(nonempty_lines(text)) + 2,
           Len(nonempty_lines(text)))

\* a line that names a catalog card with a base-10 count
well_formed(line) ==
    has_x(line) /\ int_parse(count_text(line)).ok /\ in_catalog(id_text(line))

\* an entry line that is to be skipped
skipped(line) == ~has_x(line) \/ ~in_catalog(id_text(line))

(***************************************************************************)
(* C1                                                                      *)
(***************************************************************************)
\* C1: importing the text that export produces for the session's deck gives
\* back its leader, the same (card_id, count) entries and the same name,
\* whatever the counts.
C1_RoundTrip ==
    leader # None =>
        LET r == parse_deck(export_text(leader, deck, deck_name))
        IN  /\ r.end = "ok"
            /\ r.leader = leader
            /\ deck_items(r.deck) = deck_items(deck)
            /\ r.deck_name = deck_name

(***************************************************************************)
(* C2                                                                      *)
(***************************************************************************)
\* C2: a line is split on its first "x": an import is never refused because
\* a line holds a second "x", and the leader becomes the catalog card named
\* by everything after the first "x" of the leader line.
C2_SplitOnFirstX ==
    (op \in Importers /\ has_leader_line(last_text) /\ has_x(leader_line_of(last_text))) =>
        /\ msg.reason \notin {"unpack", "entry_unpack"}
        /\ in_catalog(id_text(leader_line_of(last_text))) =>
               (leader # None /\ leader.card_id = id_text(leader_line_of(last_text)))

(***************************************************************************)
(* C3                                                                      *)
(***************************************************************************)
\* the leader line or an entry line has an "x" after a count that is not a
\* base-10 integer
has_malformed_count(text) ==
    /\ has_leader_line(text)
    /\ \E line \in {leader_line_of(text)} \cup list_set(entry_lines_of(text)) :
           has_x(line) /\ ~int_parse(count_text(line)).ok

TextsWithMalformedCount == {t \in list_set(ImportTexts) : has_malformed_count(t)}

\* C3: an import of a text with a malformed count reports a failure and
\* leaves leader, deck and deck name as they were before it.
C3_MalformedCountImportsNothing ==
    [][(op' \in Importers /\ last_text' \in TextsWithMalformedCount) =>
           (/\ msg'.kind \in {"error", "exception"}
            /\ <<leader, deck, deck_name>>' = <<leader, deck, deck_name>>)]_vars

(***************************************************************************)
(* C4                                                                      *)
(***************************************************************************)
leader_line_lacks_x(text) == has_leader_line(text) /\ ~has_x(leader_line_of(text))

TextsWithoutXInLeaderLine == {t \in list_set(ImportTexts) : leader_line_lacks_x(t)}

\* C4: each of the three importers, given a text whose leader line has no
\* "x", reports an error and leaves leader, deck, deck name and deck_view
\* unchanged.
C4_LeaderLineWithoutX ==
    [][(op' \in Importers /\ last_text' \in TextsWithoutXInLeaderLine) =>
           (msg'.kind = "error" /\ session' = session)]_vars

\* a saved file without "x" in its leader line was loaded over a deck
C4_Witness ==
    /\ op = "load"
    /\ leader_line_lacks_x(last_text)
    /\ msg.kind = "error"
    /\ leader # None
    /\ deck # <<>>
    /\ deck_view = "add_cards"

(***************************************************************************)
(* C5                                                                      *)
(***************************************************************************)
leader_id_unknown(text) ==
    /\ has_leader_line(text)
    /\ has_x(leader_line_of(text))
    /\ ~in_catalog(id_text(leader_line_of(text)))

TextsWithUnknownLeader == {t \in list_set(ImportTexts) : leader_id_unknown(t)}

\* C5: an import of a text whose leader line names a card ID that is not in
\* the catalog fails with an error and leaves leader, deck, deck name and
\* deck_view unchanged.
C5_UnknownLeader ==
    [][(op' \in Importers /\ last_text' \in TextsWithUnknownLeader) =>
           (msg'.kind \in {"error", "exception"} /\ session' = session)]_vars

\* a text with an unknown leader ID was imported over a named deck
C5_Witness ==
    /\ op = "text_import"
    /\ leader_id_unknown(last_text)
    /\ msg = Msg("error", "leader_not_found")
    /\ leader # None
    /\ deck # <<>>
    /\ deck_name # <<>>

(***************************************************************************)
(* C6                                                                      *)
(***************************************************************************)
\* C6: when the leader line of an imported text is well formed and each of
\* its entry lines is either well formed or to be skipped (no "x", or a card
\* ID that is not in the catalog), the import succeeds and the deck holds
\* every well-formed entry line with its count, and nothing else.
C6_SkipsAndKeepsTheRest ==
    (/\ op \in Importers
     /\ has_leader_line(last_text)
     /\ well_formed(leader_line_of(last_text))
     /\ \A line \in list_set(entry_lines_of(last_text)) : well_formed(line) \/ skipped(line))
    => /\ msg = Msg("success", "imported")
       /\ \A line \in list_set(entry_lines_of(last_text)) :
              well_formed(line) =>
                  [card_id |-> id_text(line), count |-> int_parse(count_text(line)).val]
                      \in deck_items(deck)
       /\ \A e \in deck_items(deck) :
              \E line \in list_set(entry_lines_of(last_text)) :
                  well_formed(line) /\ id_text(line) = e.card_id

(***************************************************************************)
(* C7                                                                      *)
(***************************************************************************)
Produced == {"export", "image", "save"}

\* C7: the text an export, a save or an image (as QR payload) produces is,
\* line by line: "# " and the name exactly when the name is not empty, then
\* "1x" and the leader ID, then one "{count}x{card_id}" line per deck entry,
\* joined by single newlines with none at the end; leader LEAD-001 with
\* {CARD-001: 4} named Test gives "# Test", "1xLEAD-001", "4xCARD-001"; and
\* the three texts of a session are the same text.
C7_ExportFormat ==
    /\ out.kind \in Produced =>
           LET lines == split(out.text, "\n")
               k == IF deck_name # <<>> THEN 1 ELSE 0
           IN  /\ Len(lines) = k + 1 + Len(deck)
               /\ deck_name # <<>> => lines[1] = <<"#", " ">> \o deck_name
               /\ lines[k + 1] = <<"1", "x">> \o leader.card_id
               /\ {lines[i] : i \in (k + 2)..Len(lines)}
                      = {int_str(e.count) \o <<"x">> \o e.card_id : e \in deck_items(deck)}
    /\ (/\ out.kind \in Produced
        /\ leader.card_id = LEAD_001
        /\ deck = <<[card_id |-> CARD_001, count |-> 4]>>
        /\ deck_name = Test)
       => out.text = <<"#", " ", "T", "e", "s", "t", "\n",
                       "1", "x", "L", "E", "A", "D", "-", "0", "0", "1", "\n",
                       "4", "x", "C", "A", "R", "D", "-", "0", "0", "1">>
    /\ leader # None =>
           /\ deck_text(leader, deck, deck_name) = export_text(leader, deck, deck_name)
           /\ deck_name # <<>> =>
                  save_text(leader, deck, deck_name) = export_text(leader, deck, deck_name)

\* the example deck was saved
C7_Witness ==
    /\ out.kind = "save"
    /\ leader.card_id = LEAD_001
    /\ deck = <<[card_id |-> CARD_001, count |-> 4]>>
    /\ deck_name = Test
    /\ Len(out.text) = 28

(***************************************************************************)
(* C8                                                                      *)
(***************************************************************************)
\* the card IDs of the entry lines of the produced text, in text order
C8_entry_ids ==
    LET lines == split(out.text, "\n")
        k == IF deck_name # <<>> THEN 1 ELSE 0
    IN  [i \in 1..(Len(lines) - k - 1) |-> id_text(lines[k + 1 + i])]

C8_row(card_id) == RawCatalog[CHOOSE i \in 1..Len(RawCatalog) : RawCatalog[i].card_id = card_id]

\* a < b for two (rank, cost, rank, card ID) keys
C8_before(a, b) ==
    \/ a[1] < b[1]
    \/ a[1] = b[1] /\ a[2] < b[2]
    \/ a[1] = b[1] /\ a[2] = b[2] /\ a[3] < b[3]
    \/ a[1] = b[1] /\ a[2] = b[2] /\ a[3] = b[3] /\ str_lt(a[4], b[4])

C8_cost(card_id) ==
    IF C8_row(card_id).cost = <<"-">> THEN 0 ELSE int_parse(C8_row(card_id).cost).val

\* the key as C8 words it: the type priority of the card's type and the
\* canonical index of its first color (none: after every color)
C8_key_by_type(card_id) ==
    LET row == C8_row(card_id)
        occ == C9_occurring(row.color)
    IN  <<IF row.type \in DOMAIN C9_known_rank THEN C9_known_rank[row.type] ELSE 9,
          C8_cost(card_id),
          IF occ = {} THEN 999 ELSE Min(occ),
          card_id>>

\* the key with the ranks taken from the card's sort key, which is the
\* maximal key for a card without a known color
C8_key_by_sort_key(card_id) ==
    LET row == C8_row(card_id)
        occ == C9_occurring(row.color)
    IN  <<IF occ = {} THEN 999
          ELSE IF row.type \in DOMAIN C9_known_rank THEN C9_known_rank[row.type] ELSE 9,
          C8_cost(card_id),
          IF occ = {} THEN 999 ELSE Min(occ),
          card_id>>

RECURSIVE reversed(_)
reversed(seq) == IF seq = <<>> THEN <<>> ELSE Append(reversed(Tail(seq)), Head(seq))

\* the text does not depend on the insertion order of the deck
C8_order_free ==
    leader # None =>
        export_text(leader, reversed(deck), deck_name) = export_text(leader, deck, deck_name)

\* C8 as stated: the entry lines ascend by (type priority of the card's type,
\* cost, canonical index of its first color, card ID), and the text does not
\* depend on the insertion order of the deck.
C8_OrderedByTypePriority ==
    /\ out.kind \in Produced =>
           \A i \in 1..(Len(C8_entry_ids) - 1) :
               C8_before(C8_key_by_type(C8_entry_ids[i]), C8_key_by_type(C8_entry_ids[i + 1]))
    /\ C8_order_free

\* C8 amended: the entry lines ascend by (type_rank, cost, base_color_rank,
\* card ID) with both ranks read from the card's sort key, so that a card
\* without a known color has 999 for both and comes after every colored
\* card; the text does not depend on the insertion order of the deck.
C8_OrderedBySortKeyRanks ==
    /\ out.kind \in Produced =>
           \A i \in 1..(Len(C8_entry_ids) - 1) :
               C8_before(C8_key_by_sort_key(C8_entry_ids[i]),
                         C8_key_by_sort_key(C8_entry_ids[i + 1]))
    /\ C8_order_free

\* a deck whose insertion order is not its display order, with a card
\* without color, was exported
C8_Witness ==
    /\ out.kind = "export"
    /\ Len(deck) = 3
    /\ deck[1].card_id = DON_001
    /\ C8_entry_ids[3] = DON_001
    /\ C8_entry_ids[1] = CARD_002

(***************************************************************************)
(* Calls of color_sort_key outside a session: df.apply(color_sort_key)     *)
(* gives the function the color and type columns of any row.               *)
(***************************************************************************)
\* a color column value has at most this many characters
MaxColorLen == 3

ColorAlphabet == {"R", "G", "Y", "/", "|", " ", "-"}

ColorSpecs ==
    UNION {[1..n -> ColorAlphabet] : n \in 0..MaxColorLen}
    \cup {<<"R", "/", "G", "/", "Y">>, <<" ", "G", " ", "|", " ", "R">>}

TypeInputs == TypeNames \cup {"DON"}

SortKeyArgs ==
    {[fn |-> "color_sort_key", color_spec |-> c, type |-> t] :
        c \in ColorSpecs, t \in TypeInputs}

SortKeyInit == InitSession /\ args \in SortKeyArgs /\ result = NoResult

CallColorSortKey ==
    /\ args.fn = "color_sort_key"
    /\ ~result.returned
    /\ result' = [returned |-> TRUE,
                  value |-> color_sort_key(args.color_spec, args.type)]
    /\ UNCHANGED <<leader, deck, deck_name, deck_view, op, msg, last_text, out, args>>

SortKeyNext == CallColorSortKey

SortKeySpec == SortKeyInit /\ [][SortKeyNext]_vars

(***************************************************************************)
(* Calls of filter_cards outside a session.  A predicate set is a set of   *)
(* (dimension, value) choices; the widgets hand filter_cards, for each      *)
(* dimension, the values chosen for it, and the keywords as one text.      *)
(***************************************************************************)
\* a predicate set has at most this many choices
MaxAtoms == 1

\* the options each widget offers
Options ==
    [colors |-> << <<"R">>, <<"G">> >>,
     types |-> <<"CHARACTER", "EVENT">>,
     costs |-> <<2>>,
     counters |-> <<"1000">>,
     attributes |-> << <<"T">> >>,
     blocks |-> <<"1">>,
     series_ids |-> << <<"O", "1">> >>,
     feature_selected |-> << <<"S", "N">> >>,
     free_words |-> << <<"k", "o">>, <<"n", "a">> >>,
     leader_colors |-> << <<"G">> >>]

\* a choice: the pick-th option of dimension d
Atom(d, i) == [dim |-> d, pick |-> i]

Atoms == {Atom(d, i) : d \in DOMAIN Options, i \in 1..2} \ {Atom(d, 2) : d \in {e \in DOMAIN Options : Len(Options[e]) < 2}}

PredicateSets == {P \in SUBSET Atoms : P # {} /\ Cardinality(P) <= MaxAtoms}

\* the values a predicate set chooses for a dimension
chosen(P, d) == {Options[d][a.pick] : a \in {b \in P : b.dim = d}}

\* the keywords typed into the free-text box, separated by a space
RECURSIVE typed(_)
typed(words) ==
    IF words = {} THEN <<>>
    ELSE LET w == CHOOSE x \in words : TRUE
         IN  IF words = {w} THEN w ELSE w \o <<" ">> \o typed(words \ {w})

filter_of(P) ==
    [colors |-> chosen(P, "colors"), types |-> chosen(P, "types"),
     costs |-> chosen(P, "costs"), counters |-> chosen(P, "counters"),
     attributes |-> chosen(P, "attributes"), blocks |-> chosen(P, "blocks"),
     feature_selected |-> chosen(P, "feature_selected"),
     free_words |-> typed(chosen(P, "free_words")),
     series_ids |-> chosen(P, "series_ids"),
     leader_colors |-> chosen(P, "leader_colors")]

FilterArgs == {[fn |-> "filter_cards", P1 |-> p, P2 |-> q] : p \in PredicateSets, q \in PredicateSets}

FilterInit == InitSession /\ args \in FilterArgs /\ result = NoResult

\* the three calls the conjunction property compares
CallFilterCards ==
    /\ args.fn = "filter_cards"
    /\ ~result.returned
    /\ result' = [returned |-> TRUE,
                  both |-> list_set(filter_cards(df, filter_of(args.P1 \cup args.P2))),
                  first |-> list_set(filter_cards(df, filter_of(args.P1))),
                  second |-> list_set(filter_cards(df, filter_of(args.P2)))]
    /\ UNCHANGED <<leader, deck, deck_name, deck_view, op, msg, last_text, out, args>>

FilterNext == CallFilterCards

FilterSpec == FilterInit /\ [][FilterNext]_vars

(***************************************************************************)
(* C9                                                                      *)
(***************************************************************************)
\* C9: what color_sort_key returns is the reference key: the maximal key
\* for a color text that is empty, "-" or without a known color; otherwise
\* the canonical index of the earliest canonical color that occurs, the
\* type priority (an unknown type after the four known ones), the canonical
\* index plus one of the first other known color when the text holds a slash
\* and such a color exists (else 0), and 1 or 0 as the text holds a slash.
C9_SortKeyIsReference ==
    result.returned =>
        LET c == args.color_spec
            t == args.type
            v == result.value
            occ == C9_occurring(c)
        IN  IF c = <<>> \/ c = <<"-">> \/ occ = {}
            THEN v = <<999, 999, 999, 999>>
            ELSE /\ v[1] = Min(occ)
                 /\ IF t \in DOMAIN C9_known_rank THEN v[2] = C9_known_rank[t] ELSE v[2] > 3
                 /\ v[3] = IF C9_has_slash(c) /\ occ \ {Min(occ)} # {}
                           THEN Min(occ \ {Min(occ)}) + 1 ELSE 0
                 /\ v[4] = IF C9_has_slash(c) THEN 1 ELSE 0

\* a two-color text whose later color is the earlier canonical one
C9_Witness ==
    /\ result.returned
    /\ args.color_spec = <<"G", "/", "R">>
    /\ args.type = "EVENT"
    /\ result.value = <<0, 2, 2, 1>>

(***************************************************************************)
(* C10                                                                     *)
(***************************************************************************)
\* C10 as stated: filtering with P1 and P2 together returns the rows that
\* filtering with P1 alone and with P2 alone both return, for any two
\* non-empty predicate sets.
C10_ConjunctionOfAny ==
    result.returned => result.both = result.first \cap result.second

C10_dims(P) == {a.dim : a \in P}

\* P1 and P2 do not choose different values for one multiselect dimension
C10_compatible(P, Q) ==
    \A d \in (C10_dims(P) \cap C10_dims(Q)) \ {"free_words"} : chosen(P, d) = chosen(Q, d)

\* C10 amended: filtering with P1 and P2 together returns the rows that
\* filtering with P1 alone and with P2 alone both return, when no multiselect
\* dimension is given different values by P1 and by P2 (keywords of the
\* free text always narrow).
C10_ConjunctionAcrossDimensions ==
    (result.returned /\ C10_compatible(args.P1, args.P2)) =>
        result.both = result.first \cap result.second

\* two different dimensions, each narrowing the other's result
C10_Witness ==
    /\ result.returned
    /\ args.P1 = {Atom("colors", 1)}
    /\ args.P2 = {Atom("types", 1)}
    /\ result.both # result.first
    /\ result.both # result.second
    /\ result.both # {}

(***************************************************************************)
(* Calls of filter_cards on a catalog in any row order, with or without    *)
(* predicates and with the leader_colors the add-cards screen derives.     *)
(***************************************************************************)
\* the rows of df from the k-th on, followed by the rows before it
rotated(k) == as_list([i \in 1..Len(df) |-> df[((i + k - 2) % Len(df)) + 1]])

\* the rows of df in the opposite order
backwards == as_list([i \in 1..Len(df) |-> df[Len(df) + 1 - i]])

Catalogs == {df, backwards, rotated(3), rotated(6)}

\* leader_colors: None, or what the add-cards screen derives from a leader
LeaderColorSets ==
    {{}} \cup {leader_colors_of(df[i]) : i \in {j \in 1..Len(df) : df[j].type = "LEADER"}}

FilterOnArgs ==
    {[fn |-> "filter_cards_on", cat |-> c, P |-> p, leader_colors |-> lcs] :
        c \in Catalogs, p \in PredicateSets \cup {{}}, lcs \in LeaderColorSets}

FilterOnInit == InitSession /\ args \in FilterOnArgs /\ result = NoResult

\* the filter of one call: the widgets' choices and the leader's colors
filter_on(P, lcs) ==
    [filter_of(P) EXCEPT !.leader_colors = lcs \cup chosen(P, "leader_colors")]

\* the frame passed as df once the call has returned: results is a copy
\* (df.copy()), every step rebinds results to a new frame, and sort_values
\* is not in place
catalog_after(cat, f) == cat

CallFilterCardsOn ==
    /\ args.fn = "filter_cards_on"
    /\ ~result.returned
    /\ LET f == filter_on(args.P, args.leader_colors)
       IN  result' = [returned |-> TRUE,
                      rows |-> filter_cards(args.cat, f),
                      catalog |-> catalog_after(args.cat, f)]
    /\ UNCHANGED <<leader, deck, deck_name, deck_view, op, msg, last_text, out, args>>

FilterOnNext == CallFilterCardsOn

FilterOnSpec == FilterOnInit /\ [][FilterOnNext]_vars

(***************************************************************************)
(* C11                                                                     *)
(***************************************************************************)
\* the leader_colors a call was given
C11_leader_colors == args.leader_colors \cup chosen(args.P, "leader_colors")

\* C11: when filter_cards is given leader_colors (at least one color), no
\* returned row is of type LEADER and the color text of every returned row
\* holds one of the leader_colors, whatever the other predicates are.
C11_LeaderExclusion ==
    (result.returned /\ C11_leader_colors # {}) =>
        \A i \in 1..Len(result.rows) :
            /\ result.rows[i].type # "LEADER"
            /\ \E lc \in C11_leader_colors : contains(result.rows[i].color, lc)

\* a two-color leader's colors and no other predicate: a LEADER row of one
\* of these colors is in the catalog, rows of both colors are returned
C11_Witness ==
    /\ result.returned
    /\ args.P = {}
    /\ args.leader_colors = {<<"G">>, <<"B">>}
    /\ \E i \in 1..Len(args.cat) :
           args.cat[i].type = "LEADER" /\ contains(args.cat[i].color, <<"G">>)
    /\ {result.rows[i].card_id : i \in 1..Len(result.rows)} = {CARD_002, OP01_075, STG_001}

(***************************************************************************)
(* C12                                                                     *)
(***************************************************************************)
C12_key(r) == <<r.sort_key[1], r.sort_key[2], r.sort_key[3], r.sort_key[4], r.cost_num>>

\* row a comes before row b by (sort key, cost, card ID)
C12_before(a, b) ==
    LET differ == {k \in 1..5 : C12_key(a)[k] # C12_key(b)[k]}
    IN  IF differ = {} THEN str_lt(a.card_id, b.card_id)
        ELSE C12_key(a)[Min(differ)] < C12_key(b)[Min(differ)]

\* C12: the rows filter_cards returns ascend by (sort key, cost, card ID),
\* with predicates or with none, and the catalog it was given is as it was.
C12_SortedAndCatalogUntouched ==
    result.returned =>
        /\ \A i \in 1..(Len(result.rows) - 1) :
               C12_before(result.rows[i], result.rows[i + 1])
        /\ result.catalog = args.cat

\* no predicate at all on a catalog that is not in sorted order: every row
\* is returned, in another order than the catalog's
C12_Witness ==
    /\ result.returned
    /\ args.P = {}
    /\ args.leader_colors = {}
    /\ Len(result.rows) = Len(args.cat)
    /\ result.rows # args.cat
    /\ args.cat = backwards

(***************************************************************************)
(* Calls of create_deck_image outside a session: the function takes any    *)
(* deck_dict, whatever its counts.                                         *)
(***************************************************************************)
\* the largest count of one entry of a deck_dict
MaxCopies == 49

ImageCounts == {1, 4, MaxCopies - 3, MaxCopies}

ImageIds == {CARD_001, OP01_075, DON_001}

ImageEntries == {[card_id |-> c, count |-> n] : c \in ImageIds, n \in ImageCounts}

ImageDecks ==
    {<<>>}
    \cup {<<e>> : e \in ImageEntries}
    \cup {<<p[1], p[2]>> : p \in {q \in ImageEntries \X ImageEntries :
                                      q[1].card_id # q[2].card_id}}

Leaders == {df[i] : i \in {j \in 1..Len(df) : df[j].type = "LEADER"}}

ImageArgs ==
    UNION {{[fn |-> "create_deck_image", leader_card |-> l, deck_dict |-> d,
             name |-> n, fetch |-> f] : l \in Leaders, n \in {<<>>, Test}, f \in Fetches(d)}
           : d \in ImageDecks}

ImageInit == InitSession /\ args \in ImageArgs /\ result = NoResult

\* deck_dict once the call has returned: the function reads it with
\* deck_dict.items() and writes nothing to it
deck_dict_after(leader_card, deck_dict, name, fetch) == deck_dict

CallCreateDeckImage ==
    /\ args.fn = "create_deck_image"
    /\ ~result.returned
    /\ result' = [returned |-> TRUE,
                  image |-> create_deck_image(args.leader_card, args.deck_dict,
                                              args.name, args.fetch),
                  deck_dict |-> deck_dict_after(args.leader_card, args.deck_dict,
                                                args.name, args.fetch)]
    /\ UNCHANGED <<leader, deck, deck_name, deck_view, op, msg, last_text, out, args>>

ImageNext == CallCreateDeckImage

ImageSpec == ImageInit /\ [][ImageNext]_vars

(***************************************************************************)
(* C13                                                                     *)
(***************************************************************************)
\* the card IDs of the first 50 cards of the deck in display order
C13_requested ==
    {c \in deck_keys(args.deck_dict) :
        \E i \in 1..Len(result.image.cells) : result.image.cells[i].card_id = c}

\* C13: whatever a request for a card image does (succeed, fail on the
\* network or time out, answer with a non-success status, give bytes that
\* do not decode), for the leader or for a thumbnail, create_deck_image
\* returns the image, in which exactly the cards whose request succeeded
\* have their art.
C13_FetchFailureNeverAborts ==
    result.returned =>
        /\ ~result.image.raised
        /\ result.image.leader_pasted = (args.fetch.leader = "ok")
        /\ \A i \in 1..Len(result.image.cells) :
               result.image.cells[i].pasted
                   = (args.fetch.cards[result.image.cells[i].card_id] = "ok")

(***************************************************************************)
(* C14                                                                     *)
(***************************************************************************)
\* C14: with a leader set, whatever the counts of the deck, the export
\* button gives the export text and the image button gives the image, and
\* the save button writes the file whenever a deck name is set as well.
C14_CapacityNeverBlocksOutput ==
    leader # None =>
        /\ op = "export" => out.kind = "export"
        /\ op = "image" => out.kind = "image"
        /\ (op = "save" /\ deck_name # <<>>) => out.kind = "save"

(***************************************************************************)
(* Building a deck with the buttons alone: leader selection, the screens'  *)
(* navigation, and the "+" and "-" buttons of the sidebar and of the       *)
(* add-cards grid.  Nothing is imported.                                   *)
(***************************************************************************)
\* the "+" buttons add a card ID that is not yet in the deck only below this size
UiMaxKeys == 2
\* the "+" buttons add a copy only while the deck holds fewer cards than this
UiMaxTotal == 51

UiSidebarAdd(card_id) ==
    /\ total_cards(deck) < UiMaxTotal
    /\ SidebarAddPressed(card_id)

UiAddCard(f, card_id) ==
    /\ has_key(deck, card_id) \/ Len(deck) < UiMaxKeys
    /\ total_cards(deck) < UiMaxTotal
    /\ AddCardPressed(f, card_id)

UiNext ==
    \/ \E i \in 1..Len(df) : SelectLeader(df[i])
    \/ ChangeLeader
    \/ BackToLeader
    \/ PreviewButton
    \/ AddCardButton
    \/ BackToPreview
    \/ \E c \in CardIds : UiSidebarAdd(c)
    \/ \E c \in CardIds : SidebarRemove(c)
    \/ \E f \in DeckFilters : \E c \in color_cards(f) : UiAddCard(f, c)
    \/ \E f \in DeckFilters : \E c \in color_cards(f) : SubCard(f, c)

UiSpec == Init /\ [][UiNext]_vars

(***************************************************************************)
(* C15                                                                     *)
(***************************************************************************)
\* the unlimited allow-list, as the claims name it
AllowList == {OP01_075, OP08_072}

C16_PerCardCap ==
    /\ [](\A c \in deck_keys(deck) \ AllowList : deck_get(deck, c) <= 4)
    /\ [][\A c \in CardIds \ AllowList :
              deck_get(deck, c) >= 4 => deck' = deck \/ deck_get(deck', c) <= deck_get(deck, c)]_vars

\* a card outside the allow-list has its 4 copies next to an allow-list
\* card, whose "+" button has just been used
C16_Witness ==
    /\ op = "ui"
    /\ deck_get(deck, CARD_002) = 4
    /\ deck_get(deck, OP01_075) = 5
    /\ add_disabled(CARD_002, 4)

(***************************************************************************)
(* C17                                                                     *)
(***************************************************************************)
\* C17: while the deck is built with leader selection and the add and remove
\* buttons, the total of the counts of the deck is at most 50.
C17_TotalAtMost50 == total_cards(deck) <= 50

(***************************************************************************)
(* C18                                                                     *)
(***************************************************************************)
\* the entry lines of the QR payload, in text order
C18_entry_lines ==
    LET lines == split(result.image.qr_data, "\n")
        k == IF args.name # <<>> THEN 1 ELSE 0
    IN  SubSeq(lines, k + 2, Len(lines))

\* the entries the QR payload holds
C18_payload_entries ==
    {[card_id |-> id_text(C18_entry_lines[i]),
      count |-> int_parse(count_text(C18_entry_lines[i])).val] :
        i \in 1..Len(C18_entry_lines)}

\* the card IDs of the payload's entry lines, each repeated by its count
RECURSIVE C18_expand(_)
C18_expand(lines) ==
    IF lines = <<>> THEN <<>>
    ELSE [i \in 1..int_parse(count_text(Head(lines))).val |-> id_text(Head(lines))]
         \o C18_expand(Tail(lines))

C18_x_start == (2150 - 10 * 215) \div 2

\* two cells of 215 x 300 pixels share no pixel
C18_apart(a, b) ==
    \/ a.x + 215 <= b.x
    \/ b.x + 215 <= a.x
    \/ a.y + 300 <= b.y
    \/ b.y + 300 <= a.y

\* C18: in the image create_deck_image returns, the i-th card (from 0) of
\* the deck's entries in display order, each repeated by its count, has the
\* cell of row i div 10 and column i mod 10, at x = x_start + 215 * column
\* and y = 548 + 300 * row, for i < 50, and is pasted there when its art was
\* fetched; the cards from the 50th on have no cell; the QR payload holds
\* every entry of the deck with its whole count and the deck is as it was;
\* every cell is inside the 2150 x 2048 canvas and no two cells overlap.
C18_GridLayout ==
    (result.returned /\ ~result.image.raised) =>
        LET cells == result.image.cells
            flat == C18_expand(C18_entry_lines)
        IN  /\ Len(flat) = total_cards(args.deck_dict)
            /\ Len(cells) = IF Len(flat) < 50 THEN Len(flat) ELSE 50
            /\ \A n \in 1..Len(cells) :
                   LET i == n - 1
                   IN  /\ cells[n].card_id = flat[n]
                       /\ cells[n].row = i \div 10
                       /\ cells[n].col = i % 10
                       /\ cells[n].x = C18_x_start + cells[n].col * 215
                       /\ cells[n].y = 548 + cells[n].row * 300
                       /\ cells[n].pasted = (args.fetch.cards[flat[n]] = "ok")
                       /\ 0 <= cells[n].x /\ cells[n].x + 215 <= 2150
                       /\ 0 <= cells[n].y /\ cells[n].y + 300 <= 2048
            /\ \A m \in 1..Len(cells) : \A n \in (m + 1)..Len(cells) :
                   C18_apart(cells[m], cells[n])
            /\ result.image.size = <<2150, 2048>>
            /\ C18_payload_entries = deck_items(args.deck_dict)
            /\ result.deck_dict = args.deck_dict

\* a deck of 53 cards: the 50th card has the last cell, the payload holds
\* all 53
C18_Witness ==
    /\ result.returned
    /\ ~result.image.raised
    /\ total_cards(args.deck_dict) = 53
    /\ Len(result.image.cells) = 50
    /\ result.image.cells[50].row = 4
    /\ result.image.cells[50].col = 9
    /\ result.image.cells[50].x = 1935
    /\ result.image.cells[50].y = 1748
    /\ result.image.cells[1].card_id # result.image.cells[50].card_id
    /\ Len(C18_expand(C18_entry_lines)) = 53

(***************************************************************************)
(* C19                                                                     *)
(***************************************************************************)
\* the decoded payloads that are structurally invalid: no leader line, a
\* leader line without "x", an unknown leader card ID, a malformed count
C19_invalid_payloads ==
    {t \in list_set(ImportTexts) : t # <<>> /\ ~has_leader_line(t)}
    \cup TextsWithoutXInLeaderLine
    \cup TextsWithUnknownLeader
    \cup TextsWithMalformedCount

\* C19: an uploaded image in which no QR code is detected gets the "not
\* found" warning, a structurally invalid decoded payload gets an error, and
\* both leave leader, deck and deck name as they were.
C19_NotFoundIsNotAnError ==
    [][op' = "qr_import" =>
           /\ last_text' = <<>> =>
                  /\ msg' = Msg("warning", "qr_not_found")
                  /\ <<leader, deck, deck_name>>' = <<leader, deck, deck_name>>
           /\ last_text' \in C19_invalid_payloads =>
                  /\ msg'.kind = "error"
                  /\ <<leader, deck, deck_name>>' = <<leader, deck, deck_name>>]_vars

(***************************************************************************)
(* C20                                                                     *)
(***************************************************************************)
\* the entries an import takes from a text: its well-formed entry lines
C20_entries(text) ==
    {[card_id |-> id_text(line), count |-> int_parse(count_text(line)).val] :
        line \in {l \in list_set(entry_lines_of(text)) : well_formed(l)}}

\* each text with a leader line, the card ID of that line and its entries
C20_TextDecks ==
    {<<t, id_text(leader_line_of(t)), C20_entries(t)>> :
        t \in {u \in list_set(ImportTexts) :
                  has_leader_line(u) /\ has_x(leader_line_of(u))}}

\* C20: the selection of a leader leaves an empty deck and an empty name
\* with that leader, and after a successful import the deck holds exactly
\* the entries of the imported text, under the leader of that text,
\* whatever the session was before.
C20_DeckLifecycle ==
    [][/\ op' = "select_leader" =>
              /\ leader' # None /\ leader'.type = "LEADER"
              /\ deck' = <<>>
              /\ deck_name' = <<>>
       /\ (op' \in Importers /\ msg' = Msg("success", "imported")) =>
              <<last_text', leader'.card_id, deck_items(deck')>> \in C20_TextDecks]_vars

\* a saved file with one entry line was loaded: the deck is that entry
C20_Witness ==
    /\ op = "load"
    /\ msg = Msg("success", "imported")
    /\ leader # None
    /\ deck_items(deck) = {[card_id |-> CARD_001, count |-> 5]}
    /\ deck_name = <<>>

(***************************************************************************)
(* C21                                                                     *)
(***************************************************************************)
\* C21: every card ID that is a key of the session deck has a count of at
\* least 1, whatever leader selections, additions, removals, imports and
\* leader changes came before.
C21_CountsAtLeastOne ==
    \A i \in 1..Len(deck) : deck[i].count >= 1

(***************************************************************************)
(* C22                                                                     *)
(***************************************************************************)
\* C22: a leader that is set is a catalog row of type LEADER, and no card of
\* type LEADER is a key of the deck, after leader selections and imports.
C22_LeaderIsLeaderAndNotInDeck ==
    /\ leader # None => (InSeq(df, leader) /\ leader.type = "LEADER")
    /\ \A k \in deck_keys(deck) :
           \A r \in list_set(rows_with_id(k)) : r.type # "LEADER"

(***************************************************************************)
(* C23                                                                     *)
(***************************************************************************)
\* C23: deck_view is one of "leader", "preview" and "add_cards", and when it
\* is "preview" or "add_cards" a leader is set.
C23_ViewNeedsLeader ==
    /\ deck_view \in {"leader", "preview", "add_cards"}
    /\ deck_view \in {"preview", "add_cards"} => leader # None

\* a saved deck was loaded and the add-cards screen was opened on it
C23_Witness ==
    /\ deck_view = "add_cards"
    /\ leader # None
    /\ op = "ui"
    /\ deck_name # <<>>
    /\ deck # <<>>

(***************************************************************************)
(* C24                                                                     *)
(***************************************************************************)
\* C24: without a leader the deck has no entries; a step that clears the
\* leader leaves the deck empty, and a step that adds a card to the deck
\* ends with a leader set.
C24_NoLeaderNoCards ==
    /\ [](leader = None => deck = <<>>)
    /\ [][/\ (leader # None /\ leader' = None) => deck' = <<>>
          /\ total_cards(deck') > total_cards(deck) => leader' # None]_vars

\* the leader of a named deck was cleared
C24_Witness ==
    /\ op = "ui"
    /\ leader = None
    /\ deck = <<>>
    /\ deck_name # <<>>
    /\ deck_view = "leader"

====
